---- MODULE Spec2Model ----
(***************************************************************************)
(* Rainfall ingestion pipeline of db/process_rainfall_data.py (the copy    *)
(* under Scraper/ is the same program without the .env handling).          *)
(*                                                                         *)
(* main() connects to the store, lists the pending archives, and for each  *)
(* one runs process_zip_file (read the CSV member, upsert Daily, aggregate *)
(* and upsert Monthly, aggregate and upsert Yearly) and moves the archive  *)
(* to the processed directory; any exception of one archive is logged and  *)
(* the loop continues; the connection is closed in a finally block.        *)
(*                                                                         *)
(* A nullable rainfall value is a sequence of length at most one: << >> is *)
(* a missing value (NaN), <<v>> the value v.  Rainfall is in whole units.  *)
(***************************************************************************)
EXTENDS Integers, Sequences, FiniteSets, TLC

\* ------------------------------------------------------------------ bounds

\* Files in data/rainfall at the start.
NumArchives == 2

\* CSV data rows in data/rainfall, over all its archives.
MaxRows == 2

\* Rows per page of execute_batch (1000 in the program), scaled so that one
\* insert_data call spans several pages within MaxRows.
PageSize == 1

\* Runs of main() over the same directories and store.
MaxRuns == 2

\* Longest input of the aggregation functions taken on their own.
AggMaxRows == 3

\* ------------------------------------------------------------- value sets

DAILY == "RAINFALL_DATA_DAILY"
MONTHLY == "RAINFALL_DATA_MONTHLY"
YEARLY == "RAINFALL_DATA_YEARLY"
Tables == {DAILY, MONTHLY, YEARLY}

\* Station identifiers in their string order (pandas sorts group keys).
StationOrder == <<"001006", "001007">>
Stations == {StationOrder[i] : i \in 1..Len(StationOrder)}

\* File names split at "_": "001006_rainfall.zip" is <<"001006", "rainfall.zip">>.
FileNames ==
    {<<"001006", "rainfall.zip">>, <<"001006", "2024", "rainfall.zip">>,
     <<"001007", "rainfall.zip">>, <<"001006", "temperature.zip">>}

\* A CSV cell of the date column, year-month-day.
CsvDates == {<<2024, 1, 1>>, <<2024, 2, 1>>, <<2025, 1, 1>>}
NullRain == << >>
CsvRain == {NullRain, <<1>>, <<2>>}
CsvRows == [date : CsvDates, rainfall_mm : CsvRain]

SeqsUpTo(S, n) == UNION {[1..k -> S] : k \in 0..n}

\* What an archive file holds: a zip that cannot be opened, a zip with no
\* .csv member, a .csv member that does not parse or lacks the columns, or
\* a CSV with its rows.
FileKinds == {"ok", "badzip", "nocsv", "badcsv"}
Contents ==
    [kind : {"ok"}, rows : SeqsUpTo(CsvRows, MaxRows)]
        \cup [kind : FileKinds \ {"ok"}, rows : {<< >>}]

\* ------------------------------------------------------- pure functions

\* f.endswith('_rainfall.zip')
IsRainfallZip(name) == Len(name) >= 2 /\ name[Len(name)] = "rainfall.zip"

\* os.path.basename(zip_path).split('_')[0]
station_id_of(name) == name[1]

\* pd.to_datetime of one cell
to_datetime(cell) == [year |-> cell[1], month |-> cell[2], day |-> cell[3]]

process_daily_data(df, station_id) ==
    [i \in 1..Len(df) |->
        [station_id |-> station_id,
         date |-> to_datetime(df[i].date),
         rainfall |-> df[i].rainfall_mm]]

\* Mutant: .max() in place of .sum().
RECURSIVE SumRain_Max(_)
SumRain_Max(rows) ==
    IF rows = << >> THEN 0
    ELSE LET h == IF Head(rows).rainfall = NullRain THEN 0 ELSE Head(rows).rainfall[1]
             t == SumRain_Max(Tail(rows))
         IN  IF h > t THEN h ELSE t

\* Series.sum() of a group: missing values are skipped, an empty sum is 0.
RECURSIVE SumRain(_)
SumRain(rows) ==
    IF rows = << >> THEN 0
    ELSE (IF Head(rows).rainfall = NullRain THEN 0 ELSE Head(rows).rainfall[1])
            + SumRain(Tail(rows))

\* Mutant: sum(skipna=False), one missing value makes the group's sum missing.
GroupSum_NullPropagates(rows) ==
    IF \E i \in 1..Len(rows) : rows[i].rainfall = NullRain
    THEN NullRain
    ELSE <<SumRain(rows)>>

\* ['rainfall'].sum() of one group, as the rainfall cell of its output row.
GroupSum(rows) == <<SumRain(rows)>>

StationRank(s) == CHOOSE i \in 1..Len(StationOrder) : StationOrder[i] = s

\* Lexicographic order of group keys (tuples of a station and integers).
KeyLess(a, b) ==
    \/ StationRank(a[1]) < StationRank(b[1])
    \/ /\ a[1] = b[1]
       /\ \E i \in 2..Len(a) :
            /\ a[i] < b[i]
            /\ \A j \in 2..(i - 1) : a[j] = b[j]

\* The keys of a group-by in sorted order.
RECURSIVE SortKeys(_)
SortKeys(keys) ==
    IF keys = {} THEN << >>
    ELSE LET k == CHOOSE x \in keys : \A y \in keys \ {x} : KeyLess(x, y)
         IN  <<k>> \o SortKeys(keys \ {k})

MonthKeyOf(r) == <<r.station_id, r.date.year, r.date.month>>
YearKeyOf(r) == <<r.station_id, r.date.year>>

calculate_monthly_data(daily_data) ==
    LET n == Len(daily_data)
        keys == SortKeys({MonthKeyOf(daily_data[i]) : i \in 1..n})
        group(k) == SelectSeq(daily_data, LAMBDA r : MonthKeyOf(r) = k)
    IN  [j \in 1..Len(keys) |->
            [station_id |-> keys[j][1], year |-> keys[j][2],
             month |-> keys[j][3], rainfall |-> GroupSum(group(keys[j]))]]

calculate_yearly_data(daily_data) ==
    LET n == Len(daily_data)
        keys == SortKeys({YearKeyOf(daily_data[i]) : i \in 1..n})
        group(k) == SelectSeq(daily_data, LAMBDA r : YearKeyOf(r) = k)
    IN  [j \in 1..Len(keys) |->
            [station_id |-> keys[j][1], year |-> keys[j][2],
             rainfall |-> GroupSum(group(keys[j]))]]

\* The columns of a table's ON CONFLICT target.
ConflictKey(table_name, row) ==
    IF table_name = DAILY THEN <<row.station_id, row.date>>
    ELSE IF table_name = MONTHLY THEN <<row.station_id, row.month, row.year>>
    ELSE <<row.station_id, row.year>>

\* Mutant: a plain INSERT, no ON CONFLICT clause and no unique constraint.
Upsert_PlainInsert(rows, table_name, row) == rows \cup {row}

\* Mutant: DO UPDATE SET rainfall = rainfall + EXCLUDED.rainfall
Upsert_Accumulates(rows, table_name, row) ==
    IF \E r \in rows : ConflictKey(table_name, r) = ConflictKey(table_name, row)
    THEN {IF ConflictKey(table_name, r) = ConflictKey(table_name, row)
          THEN [r EXCEPT !.rainfall =
                    IF @ = NullRain \/ row.rainfall = NullRain THEN row.rainfall
                    ELSE <<@[1] + row.rainfall[1]>>]
          ELSE r : r \in rows}
    ELSE rows \cup {row}

\* INSERT ... ON CONFLICT (key) DO UPDATE SET rainfall = EXCLUDED.rainfall
Upsert(rows, table_name, row) ==
    IF \E r \in rows : ConflictKey(table_name, r) = ConflictKey(table_name, row)
    THEN {IF ConflictKey(table_name, r) = ConflictKey(table_name, row)
          THEN [r EXCEPT !.rainfall = row.rainfall]
          ELSE r : r \in rows}
    ELSE rows \cup {row}

\* One page of execute_batch: its statements run in order.
RECURSIVE UpsertAll(_, _, _)
UpsertAll(rows, table_name, tuples) ==
    IF tuples = << >> THEN rows
    ELSE UpsertAll(Upsert(rows, table_name, Head(tuples)), table_name, Tail(tuples))

Min(a, b) == IF a < b THEN a ELSE b

\* The page of data_tuples that starts after `done` rows.
PageOf(tuples, done) == SubSeq(tuples, done + 1, Min(done + PageSize, Len(tuples)))

\* ------------------------------------------------------------------ state

VARIABLES
    files,          \* file name -> what the archive holds (never rewritten)
    data_dir,       \* names in data/rainfall (pending)
    processed_dir,  \* names in data/processed/rainfall
    db,             \* committed rows of the three tables
    txn,            \* the connection's open transaction: its view of the tables
    conn,           \* the handle main() holds: "none", "open" or "closed"
    link_up,        \* whether the server still answers on that connection
    pc,             \* position in main() / process_zip_file() / insert_data()
    zip_files,      \* the list main() enumerated
    idx,            \* position of the loop in zip_files
    daily_data,     \* locals of process_zip_file
    monthly_data,   \*   << >> until computed, then <<rows>>
    yearly_data,    \*   << >> until computed, then <<rows>>
    table_name,     \* argument of the running insert_data call
    sent,           \* tuples execute_batch has run in this call
    run,            \* number of the current run of main()
    attempts,       \* history: process_zip_file calls per file in this run
    committed,      \* history: tables committed by the latest processing of a file
    failed_at,      \* history: the step at which the latest processing raised
    connects,       \* history: connections opened in this run
    lost_at,        \* history: loop position at which the connection was lost
    undone,         \* history: tuples executed by the latest insert_data that raised
    loaded,         \* history: the latest complete load and the store it left
    before          \* history: the store when the archive at idx was opened

vars ==
    <<files, data_dir, processed_dir, db, txn, conn, link_up, pc, zip_files, idx,
      daily_data, monthly_data, yearly_data, table_name, sent, run, attempts,
      committed, failed_at, connects, lost_at, undone, loaded, before>>

EmptyStore == [t \in Tables |-> {}]
NoTxn == [active |-> FALSE, view |-> EmptyStore]

\* The rows a statement on the connection sees.
View == IF txn.active THEN txn.view ELSE db

\* data_tuples of the running insert_data call.
DataTuples ==
    IF table_name = DAILY THEN daily_data
    ELSE IF table_name = MONTHLY THEN monthly_data[1]
    ELSE yearly_data[1]

\* The directories a run can start from: NumArchives files, MaxRows CSV rows
\* over all of them; a file the listing filter skips is never read.
RECURSIVE Fill(_, _)
Fill(names, budget) ==
    IF names = {} THEN {<< >>}
    ELSE LET n == CHOOSE x \in names : TRUE
             choices ==
                IF IsRainfallZip(n)
                THEN {c \in Contents : Len(c.rows) <= budget}
                ELSE {[kind |-> "ok", rows |-> << >>]}
         IN  UNION {{(n :> c) @@ f : f \in Fill(names \ {n}, budget - Len(c.rows))}
                        : c \in choices}

Directories ==
    UNION {Fill(names, MaxRows) :
            names \in {S \in SUBSET FileNames : Cardinality(S) = NumArchives}}

Init ==
    /\ files \in Directories
    /\ data_dir = DOMAIN files
    /\ processed_dir = {}
    /\ db = EmptyStore
    /\ txn = NoTxn
    /\ conn = "none"
    /\ link_up = TRUE
    /\ pc = "connect"
    /\ zip_files = << >>
    /\ idx = 0
    /\ daily_data = << >>
    /\ monthly_data = << >>
    /\ yearly_data = << >>
    /\ table_name = DAILY
    /\ sent = 0
    /\ run = 1
    /\ attempts = [n \in DOMAIN files |-> 0]
    /\ committed = [n \in DOMAIN files |-> {}]
    /\ failed_at = [n \in DOMAIN files |-> ""]
    /\ connects = 0
    /\ lost_at = 0
    /\ undone = 0
    /\ loaded = << >>
    /\ before = EmptyStore

\* ---------------------------------------------------------------- helpers

\* The archive the loop is at.
Current == zip_files[idx]

\* The listing of a set of names, in any order (os.listdir gives no order).
Listings(S) ==
    {l \in [1..Cardinality(S) -> S] : \A i, j \in 1..Cardinality(S) : l[i] = l[j] => i = j}

\* Mutant: the loop ends with the archive it is at.
AfterArchive_Stops(i, n) == "finally"

\* Where main() goes once the archive at position i of n is finished, moved
\* or not: the except clause ends in `continue`.
AfterArchive(i, n) == IF i + 1 > n THEN "finally" ELSE "open"

\* Mutant: the Yearly aggregation and insert are left out.
AfterInsert_SkipsYearly(t) == IF t = DAILY THEN "calc_monthly" ELSE "move"

\* Mutant: the archive is moved as soon as the Daily insert has returned.
AfterInsert_MovesEarly(t) == "move"

\* Where process_zip_file goes after an insert_data call has returned.
AfterInsert(t) ==
    IF t = DAILY THEN "calc_monthly"
    ELSE IF t = MONTHLY THEN "calc_yearly"
    ELSE "move"

\* Where insert_data starts: execute_batch runs no statement for no tuples.
StartInsert(tuples) == IF Len(tuples) = 0 THEN "commit" ELSE "execute"

\* Mutant: the except clause of insert_data does not roll back.
Rollback_Keeps(t) == t

\* conn.rollback()
Rollback(t) == NoTxn

\* Mutant: the commit is not applied, the call's rows are lost.
Commit_Discards(store, t) == store

\* conn.commit()
Commit(store, t) == IF t.active THEN t.view ELSE store

\* One page of execute_batch inside the connection's transaction.
ExecutePage(view, t, page) ==
    [active |-> TRUE, view |-> [view EXCEPT ![t] = UpsertAll(@, t, page)]]

\* The locals of process_zip_file are dropped when it returns or raises
\* (and the record of the store it started from with them).
DropLocals ==
    /\ daily_data' = << >>
    /\ monthly_data' = << >>
    /\ yearly_data' = << >>
    /\ table_name' = DAILY
    /\ sent' = 0
    /\ before' = EmptyStore

\* Mutant: no try/except inside the loop, the exception leaves the loop.
Except_Reraises(step) ==
    /\ failed_at' = [failed_at EXCEPT ![Current] = step]
    /\ idx' = idx + 1
    /\ pc' = "finally"
    /\ DropLocals

\* main()'s except clause: log, leave the file where it is, continue.
Except(step) ==
    /\ failed_at' = [failed_at EXCEPT ![Current] = step]
    /\ idx' = idx + 1
    /\ pc' = AfterArchive(idx, Len(zip_files))
    /\ DropLocals

InsertStep(t) ==
    IF t = DAILY THEN "insert_daily"
    ELSE IF t = MONTHLY THEN "insert_monthly"
    ELSE "insert_yearly"

\* ---------------------------------------------------------------- actions

\* conn = connect_to_db(): an exception here leaves main() before its try.
connect_to_db ==
    /\ pc = "connect"
    /\ \E ok \in BOOLEAN :
        IF ok
        THEN /\ conn' = "open"
             /\ connects' = connects + 1
             /\ pc' = "listdir"
        ELSE /\ pc' = "aborted"
             /\ UNCHANGED <<conn, connects>>
    /\ UNCHANGED <<files, data_dir, processed_dir, db, txn, link_up, zip_files, idx,
                   before, daily_data, monthly_data, yearly_data, table_name, sent, run,
                   attempts, committed, failed_at, lost_at, undone, loaded>>

\* zip_files = [f for f in os.listdir(data_dir) if f.endswith('_rainfall.zip')]
main_listdir ==
    /\ pc = "listdir"
    /\ \E l \in Listings({f \in data_dir : IsRainfallZip(f)}) :
        /\ zip_files' = l
        /\ idx' = 1
        /\ pc' = IF Len(l) = 0 THEN "finally" ELSE "open"
    /\ UNCHANGED <<files, data_dir, processed_dir, db, txn, conn, link_up,
                   before, daily_data, monthly_data, yearly_data, table_name, sent, run,
                   attempts, committed, failed_at, connects, lost_at, undone, loaded>>

\* process_zip_file up to daily_data: open the zip, find the .csv member,
\* read it, process_daily_data.
process_zip_file ==
    /\ pc = "open"
    /\ attempts' = [attempts EXCEPT ![Current] = @ + 1]
    /\ committed' = [committed EXCEPT ![Current] = {}]
    /\ undone' = 0
    /\ loaded' = IF loaded # << >> /\ loaded[1].name = Current THEN loaded ELSE << >>
    /\ IF files[Current].kind # "ok"
       THEN Except(files[Current].kind)
       ELSE /\ daily_data' =
                    process_daily_data(files[Current].rows, station_id_of(Current))
            /\ table_name' = DAILY
            /\ sent' = 0
            /\ pc' = StartInsert(files[Current].rows)
            /\ failed_at' = [failed_at EXCEPT ![Current] = ""]
            /\ before' = db
            /\ UNCHANGED <<monthly_data, yearly_data, idx>>
    /\ UNCHANGED <<files, data_dir, processed_dir, db, txn, conn, link_up, zip_files,
                   run, connects, lost_at>>

\* insert_data: conn.cursor() and one page of execute_batch.
insert_execute ==
    /\ pc = "execute"
    /\ \/ /\ ~link_up
          /\ Except(InsertStep(table_name))
          /\ UNCHANGED <<txn, link_up, lost_at, undone>>
       \/ /\ link_up
          /\ txn' = ExecutePage(View, table_name, PageOf(DataTuples, sent))
          /\ sent' = sent + Len(PageOf(DataTuples, sent))
          /\ pc' = IF sent' >= Len(DataTuples) THEN "commit" ELSE "execute"
          /\ UNCHANGED <<before, daily_data, monthly_data, yearly_data, table_name, idx,
                         failed_at, link_up, lost_at, undone>>
       \/ /\ link_up
          /\ txn' = Rollback(txn)
          /\ undone' = sent
          /\ Except(InsertStep(table_name))
          /\ UNCHANGED <<link_up, lost_at>>
       \/ /\ link_up
          /\ link_up' = FALSE
          /\ lost_at' = idx
          /\ txn' = NoTxn
          /\ undone' = sent
          /\ Except(InsertStep(table_name))
    /\ UNCHANGED <<files, data_dir, processed_dir, db, conn, zip_files, run,
                   attempts, committed, connects, loaded>>

\* insert_data: conn.commit(), or conn.cursor() raising for an empty call.
insert_commit ==
    /\ pc = "commit"
    /\ \/ /\ ~link_up
          /\ Except(InsertStep(table_name))
          /\ UNCHANGED <<db, txn, link_up, lost_at, undone, committed, loaded>>
       \/ /\ link_up
          /\ db' = Commit(db, txn)
          /\ txn' = NoTxn
          /\ committed' = [committed EXCEPT ![Current] = @ \cup {table_name}]
          /\ pc' = AfterInsert(table_name)
          /\ loaded' =
                IF table_name # YEARLY THEN loaded
                ELSE IF loaded = << >>
                     THEN <<[name |-> Current, db |-> db', times |-> 1]>>
                     ELSE <<[loaded[1] EXCEPT !.times = @ + 1]>>
          /\ UNCHANGED <<before, daily_data, monthly_data, yearly_data, table_name, sent,
                         idx, failed_at, link_up, lost_at, undone>>
       \/ /\ link_up
          /\ txn.active
          /\ txn' = Rollback(txn)
          /\ undone' = sent
          /\ Except(InsertStep(table_name))
          /\ UNCHANGED <<db, link_up, lost_at, committed, loaded>>
       \/ /\ link_up
          /\ txn.active
          /\ link_up' = FALSE
          /\ lost_at' = idx
          /\ txn' = NoTxn
          /\ undone' = sent
          /\ Except(InsertStep(table_name))
          /\ UNCHANGED <<db, committed, loaded>>
    /\ UNCHANGED <<files, data_dir, processed_dir, conn, zip_files, run, attempts,
                   connects>>

\* monthly_data = calculate_monthly_data(daily_data)
calc_monthly ==
    /\ pc = "calc_monthly"
    /\ \E ok \in BOOLEAN :
        IF ok
        THEN /\ monthly_data' = <<calculate_monthly_data(daily_data)>>
             /\ table_name' = MONTHLY
             /\ sent' = 0
             /\ pc' = StartInsert(monthly_data'[1])
             /\ UNCHANGED <<before, daily_data, yearly_data, idx, failed_at>>
        ELSE Except("calc_monthly")
    /\ UNCHANGED <<files, data_dir, processed_dir, db, txn, conn, link_up, zip_files,
                   run, attempts, committed, connects, lost_at, undone, loaded>>

\* yearly_data = calculate_yearly_data(daily_data)
calc_yearly ==
    /\ pc = "calc_yearly"
    /\ \E ok \in BOOLEAN :
        IF ok
        THEN /\ yearly_data' = <<calculate_yearly_data(daily_data)>>
             /\ table_name' = YEARLY
             /\ sent' = 0
             /\ pc' = StartInsert(yearly_data'[1])
             /\ UNCHANGED <<before, daily_data, monthly_data, idx, failed_at>>
        ELSE Except("calc_yearly")
    /\ UNCHANGED <<files, data_dir, processed_dir, db, txn, conn, link_up, zip_files,
                   run, attempts, committed, connects, lost_at, undone, loaded>>

\* os.rename(zip_path, os.path.join(processed_dir, zip_file))
main_move ==
    /\ pc = "move"
    /\ \E ok \in BOOLEAN :
        IF ok
        THEN /\ data_dir' = data_dir \ {Current}
             /\ processed_dir' = processed_dir \cup {Current}
             /\ idx' = idx + 1
             /\ pc' = AfterArchive(idx, Len(zip_files))
             /\ DropLocals
             /\ UNCHANGED failed_at
        ELSE /\ Except("move")
             /\ UNCHANGED <<data_dir, processed_dir>>
    /\ UNCHANGED <<files, db, txn, conn, link_up, zip_files, run, attempts,
                   committed, connects, lost_at, undone, loaded>>

\* Mutant: no finally block, the connection is never closed.
main_close_Leaks ==
    /\ pc = "finally"
    /\ pc' = "done"
    /\ UNCHANGED <<files, data_dir, processed_dir, db, txn, conn, link_up, zip_files,
                   idx, before, daily_data, monthly_data, yearly_data, table_name, sent, run,
                   attempts, committed, failed_at, connects, lost_at, undone, loaded>>

\* finally: conn.close()
main_close ==
    /\ pc = "finally"
    /\ conn' = "closed"
    /\ pc' = "done"
    /\ UNCHANGED <<files, data_dir, processed_dir, db, txn, link_up, zip_files, idx,
                   before, daily_data, monthly_data, yearly_data, table_name, sent, run,
                   attempts, committed, failed_at, connects, lost_at, undone, loaded>>

\* The script is started again over the same directories and store.
main_again ==
    /\ pc \in {"done", "aborted"}
    /\ run < MaxRuns
    /\ run' = run + 1
    /\ pc' = "connect"
    /\ conn' = "none"
    /\ link_up' = TRUE
    /\ zip_files' = << >>
    /\ idx' = 0
    /\ attempts' = [n \in DOMAIN files |-> 0]
    /\ connects' = 0
    /\ lost_at' = 0
    /\ UNCHANGED <<files, data_dir, processed_dir, db, txn, before, daily_data, monthly_data,
                   yearly_data, table_name, sent, committed, failed_at, undone, loaded>>

Next ==
    \/ connect_to_db
    \/ main_listdir
    \/ process_zip_file
    \/ insert_execute
    \/ insert_commit
    \/ calc_monthly
    \/ calc_yearly
    \/ main_move
    \/ main_close
    \/ main_again

Spec == Init /\ [][Next]_vars

\* ----------------------------------------------------------------- claims

\* Positions inside the processing of the archive at idx.
ArchiveSteps == {"execute", "commit", "calc_monthly", "calc_yearly", "move"}

\* The archives of this run's listing the loop has finished with.
Finished == {zip_files[i] : i \in 1..Min(idx - 1, Len(zip_files))}

\* Every key the archive n yields has a row in its table.
ArchiveKeysStored(n) ==
    LET dd == process_daily_data(files[n].rows, station_id_of(n))
    IN  \A i \in 1..Len(dd) :
            /\ \E r \in db[DAILY] :
                    r.station_id = dd[i].station_id /\ r.date = dd[i].date
            /\ \E r \in db[MONTHLY] :
                    /\ r.station_id = dd[i].station_id
                    /\ r.year = dd[i].date.year
                    /\ r.month = dd[i].date.month
            /\ \E r \in db[YEARLY] :
                    r.station_id = dd[i].station_id /\ r.year = dd[i].date.year

\* C1: an archive is in the processed directory only once the Daily, the
\* Monthly and the Yearly insert_data call of its processing have all
\* committed (its rows' keys are in the three tables); while it is being
\* processed it is still in the pending directory.
C1_MovedOnlyAfterThreeUpserts ==
    /\ \A n \in processed_dir :
        /\ committed[n] = Tables
        /\ failed_at[n] = ""
        /\ n \notin data_dir
        /\ ArchiveKeysStored(n)
    /\ pc \in ArchiveSteps \cup {"open"} =>
        Current \in data_dir /\ Current \notin processed_dir

\* C1 witness: an archive with rows has been moved.
C1_Witness ==
    \E n \in processed_dir : Len(files[n].rows) = 2 /\ db[DAILY] # {}

\* C2: every archive the loop has finished with was attempted exactly once;
\* one that raised is still pending and not processed, one that did not is
\* loaded and processed; archives further down the listing are not yet
\* attempted, and the loop only ends after the last one; a raising step
\* moves the loop to the next archive and leaves the store, the directories
\* and the connection handle as they were, with no transaction open.
C2_FailureIsolated ==
    /\ [](/\ \A n \in Finished :
                /\ attempts[n] = 1
                /\ failed_at[n] # "" => n \in data_dir /\ n \notin processed_dir
                /\ failed_at[n] = "" => n \in processed_dir /\ committed[n] = Tables
          /\ \A i \in 1..Len(zip_files) : i > idx => attempts[zip_files[i]] = 0
          /\ pc \in {"finally", "done"} => idx = Len(zip_files) + 1)
    /\ [][(pc \in ArchiveSteps \cup {"open"} /\ failed_at'[Current] # "")
            => /\ idx' = idx + 1
               /\ pc' = (IF idx < Len(zip_files) THEN "open" ELSE "finally")
               /\ db' = db
               /\ ~txn'.active
               /\ data_dir' = data_dir
               /\ processed_dir' = processed_dir
               /\ conn' = conn]_vars

\* C2 witness: the run is over, an archive failed and a later one was moved.
C2_Witness ==
    /\ pc = "done"
    /\ \E i, j \in 1..Len(zip_files) :
        /\ i < j
        /\ failed_at[zip_files[i]] # ""
        /\ zip_files[i] \in data_dir
        /\ zip_files[j] \in processed_dir

\* A step of insert_data that raises to the caller.
InsertRaises == pc \in {"execute", "commit"} /\ failed_at'[Current] # ""

\* A step of insert_data that commits and returns.
InsertReturns == pc = "commit" /\ failed_at'[Current] = ""

\* C3: one insert_data call is all-or-nothing.  No page reaches the
\* committed tables before the commit; a call that raises leaves every
\* table as it was and no transaction open; a call that returns has
\* committed all its tuples at once, into its own table only; and no
\* transaction is open outside a call.
C3_InsertAllOrNothing ==
    /\ [](txn.active => pc \in {"execute", "commit"})
    /\ [][/\ pc = "execute" => db' = db
          /\ InsertRaises => db' = db /\ ~txn'.active
          /\ InsertReturns =>
                /\ db' = [db EXCEPT ![table_name] = UpsertAll(@, table_name, DataTuples)]
                /\ ~txn'.active]_vars

\* C3 witness: a Daily call raised after a page had run, and the Daily
\* table is as empty as before the call.
C3_Witness ==
    /\ undone >= 1
    /\ ~txn.active
    /\ db[DAILY] = {}
    /\ \E n \in DOMAIN files : failed_at[n] = "insert_daily" /\ Len(files[n].rows) = 2

\* The key columns of a row, read off the schema of its table.
KeyColumns(t, r) ==
    IF t = DAILY THEN <<r.station_id, r.date.year, r.date.month, r.date.day>>
    ELSE IF t = MONTHLY THEN <<r.station_id, r.year, r.month>>
    ELSE <<r.station_id, r.year>>

OneRowPerKey(store) ==
    \A t \in Tables : \A r1, r2 \in store[t] :
        KeyColumns(t, r1) = KeyColumns(t, r2) => r1 = r2

\* C7: no table ever holds two rows with one key, committed or inside the
\* transaction; a call that returns leaves, for every key among its tuples,
\* exactly one row, equal to the last tuple with that key, and leaves the
\* rows with other keys and the other tables as they were.
C7_UpsertKeepsOneRowPerKey ==
    /\ [](OneRowPerKey(db) /\ OneRowPerKey(View))
    /\ [][InsertReturns =>
            LET t == table_name
                tup == DataTuples
                keys == {KeyColumns(t, tup[i]) : i \in 1..Len(tup)}
                last(k) == CHOOSE i \in 1..Len(tup) :
                                /\ KeyColumns(t, tup[i]) = k
                                /\ \A j \in (i + 1)..Len(tup) : KeyColumns(t, tup[j]) # k
            IN  /\ \A k \in keys :
                        {r \in db'[t] : KeyColumns(t, r) = k} = {tup[last(k)]}
                /\ {r \in db'[t] : KeyColumns(t, r) \notin keys}
                        = {r \in db[t] : KeyColumns(t, r) \notin keys}
                /\ \A u \in Tables \ {t} : db'[u] = db[u]]_vars

\* C7 witness: an archive with two rows for one date and different values
\* has had its Daily call committed, and Daily holds the one row with the
\* second value.
C7_Witness ==
    \E n \in DOMAIN files :
        /\ DAILY \in committed[n]
        /\ Len(files[n].rows) = 2
        /\ files[n].rows[1].date = files[n].rows[2].date
        /\ files[n].rows[1].rainfall_mm # files[n].rows[2].rainfall_mm
        /\ Cardinality(db[DAILY]) = 1
        /\ \A r \in db[DAILY] : r.rainfall = files[n].rows[2].rainfall_mm

\* C8: once an archive has been loaded completely, processing that same
\* archive again next (it was not moved) leaves the three tables, at every
\* point of the second processing and after it, exactly as the first left
\* them.
C8_ReprocessingIsIdempotent == loaded # << >> => db = loaded[1].db

\* C8 witness: the same archive has been loaded completely twice in a row.
C8_Witness ==
    /\ loaded # << >>
    /\ loaded[1].times = 2
    /\ Len(files[loaded[1].name].rows) = 2
    /\ db[MONTHLY] # {}

\* The sum of the values present among tagged rainfall cells: S is a set
\* of pairs <<tag, cell>>, the tag (a row, an index) keeping equal cells apart.
RECURSIVE SumCells(_)
SumCells(S) ==
    IF S = {} THEN 0
    ELSE LET x == CHOOSE y \in S : TRUE
         IN  (IF x[2] = NullRain THEN 0 ELSE x[2][1]) + SumCells(S \ {x})

\* The same over a set of table rows.
SumRows(R) == SumCells({<<r, r.rainfall>> : r \in R})

\* The Daily rows of the store in a month, in a year.
StoreMonth(s, y, m) ==
    {d \in db[DAILY] : d.station_id = s /\ d.date.year = y /\ d.date.month = m}
StoreYear(s, y) == {d \in db[DAILY] : d.station_id = s /\ d.date.year = y}

\* No archive is in the middle of its processing.
BetweenArchives == pc \in {"connect", "listdir", "open", "finally", "done", "aborted"}

\* Every archive holds at most one row per date.
OneRowPerDate ==
    \A n \in DOMAIN files : \A i, j \in 1..Len(files[n].rows) :
        files[n].rows[i].date = files[n].rows[j].date => i = j

\* C4 as claimed (here only for archives with one row per date): between
\* processings, every Monthly row is the sum of the store's Daily rows of
\* its station, year and month, and every Yearly row the sum of the store's
\* Daily rows of its station and year.
C4_Original ==
    (OneRowPerDate /\ BetweenArchives) =>
        /\ \A r \in db[MONTHLY] :
                r.rainfall = <<SumRows(StoreMonth(r.station_id, r.year, r.month))>>
        /\ \A r \in db[YEARLY] :
                r.rainfall = <<SumRows(StoreYear(r.station_id, r.year))>>

\* C4 amended: when the three inserts of an archive have committed, the
\* Monthly row of every (station, year, month) of that archive is the sum of
\* the values present among that archive's own records of the group, and
\* the Yearly row likewise; that is the sum over the store's Daily rows of
\* the group whenever those rows are exactly the archive's records of the
\* group, one per date.
C4_AggregatesMatchLoadedArchive ==
    pc = "move" =>
        LET dd == daily_data
            I == 1..Len(dd)
            sum(J) == SumCells({<<j, dd[j].rainfall>> : j \in J})
            inMonth(i) ==
                {j \in I : /\ dd[j].date.year = dd[i].date.year
                           /\ dd[j].date.month = dd[i].date.month}
            inYear(i) == {j \in I : dd[j].date.year = dd[i].date.year}
            onePerDate(J) == \A j, k \in J : dd[j].date = dd[k].date => j = k
        IN  \A i \in I :
                /\ {r.rainfall : r \in {q \in db[MONTHLY] :
                        /\ q.station_id = dd[i].station_id
                        /\ q.year = dd[i].date.year
                        /\ q.month = dd[i].date.month}}
                        = {<<sum(inMonth(i))>>}
                /\ {r.rainfall : r \in {q \in db[YEARLY] :
                        q.station_id = dd[i].station_id /\ q.year = dd[i].date.year}}
                        = {<<sum(inYear(i))>>}
                /\ (/\ onePerDate(inMonth(i))
                    /\ StoreMonth(dd[i].station_id, dd[i].date.year, dd[i].date.month)
                            = {dd[j] : j \in inMonth(i)})
                    => sum(inMonth(i))
                        = SumRows(StoreMonth(dd[i].station_id, dd[i].date.year,
                                             dd[i].date.month))
                /\ (/\ onePerDate(inYear(i))
                    /\ StoreYear(dd[i].station_id, dd[i].date.year)
                            = {dd[j] : j \in inYear(i)})
                    => sum(inYear(i))
                        = SumRows(StoreYear(dd[i].station_id, dd[i].date.year))

\* C4 witness: an archive with two valued days of one year is loaded and
\* its Yearly row holds their sum.
C4_Witness ==
    /\ pc = "move"
    /\ Len(daily_data) = 2
    /\ daily_data[1].date.year = daily_data[2].date.year
    /\ daily_data[1].date # daily_data[2].date
    /\ daily_data[1].rainfall = <<1>>
    /\ daily_data[2].rainfall = <<2>>
    /\ \E r \in db[YEARLY] : r.rainfall = <<3>>

\* C5 as claimed: once the connection is lost during an upsert, no archive
\* further down the listing is attempted.
C5_Original ==
    lost_at # 0 => \A i \in 1..Len(zip_files) : i > lost_at => attempts[zip_files[i]] = 0

\* C5 amended: a failure of connect_to_db ends the run before the listing,
\* with no connection and no archive attempted, and a run that gets further
\* has connected; a connection lost during an upsert is caught like any
\* error of that archive: the archive stays pending, every later archive is
\* still attempted once, fails without committing anything and stays
\* pending, and the loop ends only after the last one.
C5_ConnectAbortsLossDoesNot ==
    /\ pc = "aborted" =>
        /\ conn = "none"
        /\ zip_files = << >>
        /\ \A n \in DOMAIN files : attempts[n] = 0
    /\ pc \notin {"connect", "aborted"} => conn # "none" /\ connects = 1
    /\ link_up <=> lost_at = 0
    /\ lost_at # 0 =>
        /\ lost_at < idx
        /\ failed_at[zip_files[lost_at]] \in {"insert_daily", "insert_monthly", "insert_yearly"}
        /\ zip_files[lost_at] \in data_dir
        /\ \A i \in (lost_at + 1)..Len(zip_files) :
                i < idx =>
                    /\ attempts[zip_files[i]] = 1
                    /\ failed_at[zip_files[i]] # ""
                    /\ committed[zip_files[i]] = {}
                    /\ zip_files[i] \in data_dir
        /\ pc \in {"finally", "done"} => idx = Len(zip_files) + 1

\* C5 witness: the run is over, the connection was lost at the first
\* archive and the second was attempted all the same.
C5_Witness ==
    /\ pc = "done"
    /\ lost_at = 1
    /\ Len(zip_files) = 2
    /\ attempts[zip_files[2]] = 1
    /\ files[zip_files[2]].kind = "ok"

\* C6 as claimed: the monthly and the yearly aggregates are both computed
\* before the first insert_data call of the archive starts, and an archive
\* that raised while aggregating has committed nothing.
C6_Original ==
    /\ pc = "execute" => monthly_data # << >> /\ yearly_data # << >>
    /\ \A n \in DOMAIN files :
            failed_at[n] \in {"calc_monthly", "calc_yearly"} => committed[n] = {}

\* The archive's Daily rows are in the store (each date with some value).
DailyWritten(n) ==
    \A i \in 1..Len(files[n].rows) :
        \E r \in db[DAILY] :
            /\ r.station_id = station_id_of(n)
            /\ r.date = to_datetime(files[n].rows[i].date)

\* C6 amended: the steps of an archive run in the order read, insert Daily,
\* aggregate monthly, insert Monthly, aggregate yearly, insert Yearly, move.
\* Each aggregate is computed only after the insert before it has
\* committed, so an archive that raises while aggregating monthly has
\* committed Daily alone, one that raises while aggregating yearly has
\* committed Daily and Monthly, and only one that raises while it is read
\* or in the Daily insert has committed nothing.
C6_StepsInProgramOrder ==
    /\ pc \in {"execute", "commit"} /\ table_name = DAILY =>
        committed[Current] = {} /\ monthly_data = << >> /\ yearly_data = << >>
    /\ pc = "calc_monthly" =>
        committed[Current] = {DAILY} /\ monthly_data = << >> /\ yearly_data = << >>
    /\ pc \in {"execute", "commit"} /\ table_name = MONTHLY =>
        committed[Current] = {DAILY} /\ monthly_data # << >> /\ yearly_data = << >>
    /\ pc = "calc_yearly" =>
        committed[Current] = {DAILY, MONTHLY} /\ monthly_data # << >> /\ yearly_data = << >>
    /\ pc \in {"execute", "commit"} /\ table_name = YEARLY =>
        committed[Current] = {DAILY, MONTHLY} /\ monthly_data # << >> /\ yearly_data # << >>
    /\ pc = "move" => committed[Current] = Tables
    /\ \A n \in DOMAIN files :
        /\ failed_at[n] \in FileKinds \cup {"insert_daily"} => committed[n] = {}
        /\ failed_at[n] \in {"calc_monthly", "insert_monthly"} =>
                committed[n] = {DAILY} /\ DailyWritten(n)
        /\ failed_at[n] \in {"calc_yearly", "insert_yearly"} =>
                committed[n] = {DAILY, MONTHLY} /\ DailyWritten(n)
        /\ failed_at[n] = "move" => committed[n] = Tables

\* C6 witness: an archive raised while its monthly aggregate was computed;
\* its Daily rows are committed and Monthly is empty.
C6_Witness ==
    \E n \in DOMAIN files :
        /\ failed_at[n] = "calc_monthly"
        /\ Len(files[n].rows) = 2
        /\ DailyWritten(n)
        /\ db[MONTHLY] = {}

\* The steps left in a run: a number every step of a run makes smaller.
StepsLeft ==
    LET w == MaxRows + 3
        perArchive == 3 * w + 2
        tableRank == IF table_name = DAILY THEN 2 ELSE IF table_name = MONTHLY THEN 1 ELSE 0
        inArchive ==
            IF pc = "open" THEN 3 * w + 1
            ELSE IF pc = "execute" THEN 3 + tableRank * w + (Len(DataTuples) - sent)
            ELSE IF pc = "commit" THEN 2 + tableRank * w
            ELSE IF pc = "calc_monthly" THEN 2 * w + 1
            ELSE IF pc = "calc_yearly" THEN w + 1
            ELSE 1
    IN  IF pc = "connect" THEN (NumArchives + 1) * perArchive + 4
        ELSE IF pc = "listdir" THEN (NumArchives + 1) * perArchive + 3
        ELSE IF pc \in ArchiveSteps \cup {"open"}
             THEN (Len(zip_files) - idx) * perArchive + inArchive + 1
        ELSE IF pc = "finally" THEN 1
        ELSE 0

RunOver == pc \in {"done", "aborted"}

\* C9: a run ends: until it is over some step is possible and every step
\* takes it nearer to its end.  It ends "done" with the connection closed
\* and every archive of its listing attempted exactly once, whichever of
\* them failed; from the listing to the finally block the handle is the one
\* connection opened by this run, open throughout.  (A run whose
\* connect_to_db raised ends with no connection at all.)
C9_RunEndsWithConnectionClosed ==
    /\ [](/\ ~RunOver => ENABLED Next
          /\ pc = "done" =>
                /\ conn = "closed"
                /\ idx = Len(zip_files) + 1
                /\ \A i \in 1..Len(zip_files) : attempts[zip_files[i]] = 1
                /\ \A n \in DOMAIN files :
                        attempts[n] = 1 <=> \E i \in 1..Len(zip_files) : zip_files[i] = n
          /\ pc \in ArchiveSteps \cup {"listdir", "open", "finally"} =>
                conn = "open" /\ connects = 1
          /\ pc = "aborted" => conn = "none" /\ connects = 0
          /\ \A n \in DOMAIN files : attempts[n] <= 1)
    /\ [][~RunOver => StepsLeft' < StepsLeft]_vars

\* C9 witness: a run over two archives is done, both failed, and the
\* connection is closed.
C9_Witness ==
    /\ pc = "done"
    /\ conn = "closed"
    /\ Len(zip_files) = 2
    /\ \A i \in 1..2 : failed_at[zip_files[i]] # "" /\ attempts[zip_files[i]] = 1

\* The rows a committed insert_data call of `tuples` leaves in table t: for
\* each key the last tuple with that key.
LastOfKey(t, tuples) ==
    {tuples[i] : i \in {i \in 1..Len(tuples) :
        \A j \in (i + 1)..Len(tuples) :
            KeyColumns(t, tuples[j]) # KeyColumns(t, tuples[i])}}

\* A step in which the Monthly or the Yearly insert_data call raises.
LaterInsertRaises ==
    /\ pc \in {"execute", "commit"}
    /\ table_name \in {MONTHLY, YEARLY}
    /\ failed_at'[Current] = InsertStep(table_name)

\* C11: when the Monthly or the Yearly insert_data call of an archive
\* raises, the step undoes the open transaction and nothing else: the
\* committed store is as it was before the step.  The Daily table holds the
\* archive's daily rows, and the Monthly table its monthly rows when Yearly
\* is the call that raised; the table of the failing call, and Yearly when
\* Monthly is the one that raised, are as they were when the archive was
\* opened.  The archive is recorded as failed at that call and stays in the
\* pending directory, at the step and for as long as it is not retried.
C11_FailedUpsertKeepsEarlierTables ==
    /\ [](\A n \in DOMAIN files :
            failed_at[n] \in {"insert_monthly", "insert_yearly"} =>
                n \in data_dir /\ n \notin processed_dir)
    /\ [][LaterInsertRaises =>
            /\ db' = db
            /\ ~txn'.active
            /\ LastOfKey(DAILY, daily_data) \subseteq db'[DAILY]
            /\ table_name = YEARLY =>
                    LastOfKey(MONTHLY, monthly_data[1]) \subseteq db'[MONTHLY]
            /\ db'[table_name] = before[table_name]
            /\ table_name = MONTHLY => db'[YEARLY] = before[YEARLY]
            /\ committed'[Current] =
                    (IF table_name = MONTHLY THEN {DAILY} ELSE {DAILY, MONTHLY})
            /\ Current \in data_dir'
            /\ Current \notin processed_dir']_vars

\* C11 witness: the Yearly call of a two-row archive raised after a page had
\* run; Daily and Monthly hold its rows, Yearly is empty, the file is pending.
C11_Witness ==
    \E n \in DOMAIN files :
        /\ failed_at[n] = "insert_yearly"
        /\ Len(files[n].rows) = 2
        /\ undone >= 1
        /\ committed[n] = {DAILY, MONTHLY}
        /\ DailyWritten(n)
        /\ db[MONTHLY] # {}
        /\ db[YEARLY] = {}
        /\ n \in data_dir
        /\ ~txn.active

\* ------------------------------------------- the aggregation on its own

\* Daily records as calculate_monthly_data and calculate_yearly_data may be
\* handed them: any stations, dates and values, in any order.
AggDates == {<<2024, 1, 1>>, <<2024, 1, 2>>, <<2024, 2, 1>>, <<2025, 1, 1>>}
AggRain == {NullRain, <<0>>, <<3>>, <<5>>}
AggRecords ==
    [station_id : Stations, date : {to_datetime(c) : c \in AggDates}, rainfall : AggRain]

AggInit ==
    /\ daily_data \in SeqsUpTo(AggRecords, AggMaxRows)
    /\ monthly_data = << >>
    /\ yearly_data = << >>
    /\ pc = "aggregate"
    /\ files = << >>
    /\ data_dir = {}
    /\ processed_dir = {}
    /\ db = EmptyStore
    /\ txn = NoTxn
    /\ conn = "none"
    /\ link_up = TRUE
    /\ zip_files = << >>
    /\ idx = 0
    /\ table_name = DAILY
    /\ sent = 0
    /\ run = 1
    /\ attempts = << >>
    /\ committed = << >>
    /\ failed_at = << >>
    /\ connects = 0
    /\ lost_at = 0
    /\ undone = 0
    /\ loaded = << >>
    /\ before = EmptyStore

\* monthly = calculate_monthly_data(daily_data)
aggregate_monthly ==
    /\ pc = "aggregate"
    /\ monthly_data' = <<calculate_monthly_data(daily_data)>>
    /\ pc' = "monthly_done"
    /\ UNCHANGED <<files, data_dir, processed_dir, db, txn, conn, link_up, zip_files,
                   idx, before, daily_data, yearly_data, table_name, sent, run, attempts,
                   committed, failed_at, connects, lost_at, undone, loaded>>

\* yearly = calculate_yearly_data(daily_data)
aggregate_yearly ==
    /\ pc = "monthly_done"
    /\ yearly_data' = <<calculate_yearly_data(daily_data)>>
    /\ pc' = "yearly_done"
    /\ UNCHANGED <<files, data_dir, processed_dir, db, txn, conn, link_up, zip_files,
                   idx, before, daily_data, monthly_data, table_name, sent, run, attempts,
                   committed, failed_at, connects, lost_at, undone, loaded>>

AggNext == aggregate_monthly \/ aggregate_yearly

SpecAgg == AggInit /\ [][AggNext]_vars

\* The scenario of the specification: three days of station 001006.
ExampleDays ==
    <<[station_id |-> "001006", date |-> to_datetime(<<2024, 1, 1>>), rainfall |-> <<5>>],
      [station_id |-> "001006", date |-> to_datetime(<<2024, 1, 2>>), rainfall |-> <<0>>],
      [station_id |-> "001006", date |-> to_datetime(<<2024, 2, 1>>), rainfall |-> <<3>>]>>

\* C10: calculate_monthly_data returns one row for each (station, year,
\* month) of its input and no other row, whose rainfall is the sum of the
\* values present in the group (0 when none is); calculate_yearly_data the
\* same for each (station, year).  The three example days give Monthly
\* (2024, 1, 5) and (2024, 2, 3) and Yearly (2024, 8).
C10_AggregatesPerGroup ==
    LET dd == daily_data
        I == 1..Len(dd)
        sum(J) == SumCells({<<j, dd[j].rainfall>> : j \in J})
        monthOf(i) == <<dd[i].station_id, dd[i].date.year, dd[i].date.month>>
        yearOf(i) == <<dd[i].station_id, dd[i].date.year>>
    IN  /\ pc \in {"monthly_done", "yearly_done"} =>
            LET m == monthly_data[1]
                keyOf(j) == <<m[j].station_id, m[j].year, m[j].month>>
            IN  /\ {keyOf(j) : j \in 1..Len(m)} = {monthOf(i) : i \in I}
                /\ \A j, k \in 1..Len(m) : keyOf(j) = keyOf(k) => j = k
                /\ \A j \in 1..Len(m) :
                    /\ m[j].rainfall = <<sum({i \in I : monthOf(i) = keyOf(j)})>>
                    /\ (\A i \in I : monthOf(i) = keyOf(j) => dd[i].rainfall = NullRain)
                            => m[j].rainfall = <<0>>
                /\ dd = ExampleDays =>
                    {m[j] : j \in 1..Len(m)} =
                        {[station_id |-> "001006", year |-> 2024, month |-> 1, rainfall |-> <<5>>],
                         [station_id |-> "001006", year |-> 2024, month |-> 2, rainfall |-> <<3>>]}
        /\ pc = "yearly_done" =>
            LET y == yearly_data[1]
                keyOf(j) == <<y[j].station_id, y[j].year>>
            IN  /\ {keyOf(j) : j \in 1..Len(y)} = {yearOf(i) : i \in I}
                /\ \A j, k \in 1..Len(y) : keyOf(j) = keyOf(k) => j = k
                /\ \A j \in 1..Len(y) :
                    /\ y[j].rainfall = <<sum({i \in I : yearOf(i) = keyOf(j)})>>
                    /\ (\A i \in I : yearOf(i) = keyOf(j) => dd[i].rainfall = NullRain)
                            => y[j].rainfall = <<0>>
                /\ dd = ExampleDays =>
                    {y[j] : j \in 1..Len(y)} =
                        {[station_id |-> "001006", year |-> 2024, rainfall |-> <<8>>]}

\* C10 witness: both aggregates of the three example days are computed.
C10_Witness ==
    /\ pc = "yearly_done"
    /\ daily_data = ExampleDays
    /\ Len(monthly_data[1]) = 2
    /\ Len(yearly_data[1]) = 1

====
